---- MODULE Spec2Model ----
(***************************************************************************)
(* Connection bootstrap of ENiGMA 1/2 BBS (core/connect.js).               *)
(*                                                                         *)
(* connectEntry(client, nextMenu) runs an async.series of three steps      *)
(* (device attributes probe, home position discovery, terminal size        *)
(* query), then primes the terminal, shows the banner, publishes           *)
(* TermDetected and hands off to the menu stack after 500 ms.              *)
(*                                                                         *)
(* JavaScript handlers run to completion, so every action below is one     *)
(* whole macro task: the connectEntry call, one 'cursor position report'   *)
(* emission, or one timer callback, including every continuation the       *)
(* handler invokes synchronously.                                          *)
(***************************************************************************)
EXTENDS Integers, Sequences, FiniteSets, TLC

VARIABLES clients, routes, addResult, dispatch

\* the web server module: route table, what the last addRoute call
\* returned, and what the last routeRequest call did
web == <<routes, addResult, dispatch>>

vars == <<clients, routes, addResult, dispatch>>

(***************************************************************************)
(* Bounds and program constants.                                           *)
(***************************************************************************)
\* connectEntry invocations per client explored by the model
MaxRuns == 2
\* routes held by the web server explored by the model
MaxRoutes == 3

\* fallback "DOS size" applied by queryTermSizeByNonStandardAnsi
DefaultHeight == 25
DefaultWidth == 80
\* sanity bounds of the screen size report
MinTermSize == 10
GotoSentinel == 999

\* (row, column) payloads of 'cursor position report' events
Positions ==
    { <<0, 0>>, <<1, 1>>, <<0, 1>>, <<1, 0>>, <<2, 1>>, <<1, 2>>,
      <<5, 80>>, <<25, 9>>, <<10, 10>>, <<25, 80>>, <<43, 132>>,
      <<25, 999>>, <<999, 80>>, <<999, 999>> }

\* sizes established by an out-of-band channel (NAWS and similar)
WindowSizes == { <<24, 80>>, <<50, 132>> }

\* term sizes a client may have when connectEntry is called
InitialSizes == { <<0, 0>>, <<24, 80>>, <<24, 0>>, <<0, 80>> }

Queries == { "home", "size" }

NoCpr == [ pos |-> <<>>, re |-> "none" ]

(***************************************************************************)
(* Helpers on one client object.                                           *)
(***************************************************************************)
Record(cl, evts) == [cl EXCEPT !.trace = @ \o evts]

\* client.log.warn / info / debug
Log(cl, line) == [cl EXCEPT !.log = Append(@, line)]

removeListener(cl, l) == [cl EXCEPT !.listeners = @ \ {l}]

clearTimeout(cl, t) == [cl EXCEPT !.timers = @ \ {t}]

(***************************************************************************)
(* connectEntry: completion callback of the series.                        *)
(***************************************************************************)
\* variant: the event is published before the terminal is primed
seriesComplete_EmitFirst(cl) ==
    [ Record(cl, << "emit:TermDetected", "write:prime", "write:banner", "arm:menu" >>)
        EXCEPT !.termDetected = @ + 1,
               !.timers = @ \cup {"menu"},
               !.stage = "delay" ]

seriesComplete(cl) ==
    [ Record(cl, << "write:prime", "write:banner", "emit:TermDetected", "arm:menu" >>)
        EXCEPT !.termDetected = @ + 1,
               !.timers = @ \cup {"menu"},
               !.stage = "delay" ]

menuGoto(cl) ==
    [ Record(cl, << "goto" >>) EXCEPT !.stage = "menu" ]

(***************************************************************************)
(* connectEntry.queryTermSizeByNonStandardAnsi: callback handed to         *)
(* ansiQueryTermSizeIfNeeded.                                              *)
(***************************************************************************)
\* variant: on failure the default is forced without checking again
queryTermSizeCb_AlwaysDefault(cl, err) ==
    LET got == [ Record(cl, << "size:cb" >>)
                   EXCEPT !.sizeErr = err,
                          !.sizeAtCb = << cl.termHeight, cl.termWidth >> ]
        fixed ==
            IF err # "null"
            THEN [ Log(got, "warn:defaulting")
                     EXCEPT !.termHeight = DefaultHeight,
                            !.termWidth = DefaultWidth ]
            ELSE got
    IN seriesComplete(fixed)

\* variant: the default is stored as 80 rows by 25 columns
queryTermSizeCb_Swapped(cl, err) ==
    LET got == [ Record(cl, << "size:cb" >>)
                   EXCEPT !.sizeErr = err,
                          !.sizeAtCb = << cl.termHeight, cl.termWidth >> ]
        fixed ==
            IF err # "null" /\ (got.termHeight = 0 \/ got.termWidth = 0)
            THEN [ Log(got, "warn:defaulting")
                     EXCEPT !.termHeight = DefaultWidth,
                            !.termWidth = DefaultHeight ]
            ELSE got
    IN seriesComplete(fixed)

queryTermSizeCb(cl, err) ==
    LET got == [ Record(cl, << "size:cb" >>)
                   EXCEPT !.sizeErr = err,
                          !.sizeAtCb = << cl.termHeight, cl.termWidth >> ]
        fixed ==
            IF err # "null" /\ (got.termHeight = 0 \/ got.termWidth = 0)
            THEN [ Log(got, "warn:defaulting")
                     EXCEPT !.termHeight = DefaultHeight,
                            !.termWidth = DefaultWidth ]
            ELSE got
    IN seriesComplete(fixed)

(***************************************************************************)
(* ansiQueryTermSizeIfNeeded                                               *)
(***************************************************************************)
\* variant: done() forgets removeListener
sizeDone_KeepListener(cl, err) ==
    queryTermSizeCb(clearTimeout(cl, "size"), err)

\* variant: done() forgets clearTimeout
sizeDone_KeepTimer(cl, err) ==
    queryTermSizeCb(removeListener(cl, "size"), err)

sizeDone(cl, err) ==
    queryTermSizeCb(clearTimeout(removeListener(cl, "size"), "size"), err)

\* variant: the 999 sentinel is not rejected
sizeCprListener_NoSentinel(cl, cpr) ==
    LET h == cpr.pos[1]
        w == cpr.pos[2]
        seen == [ Record(cl, << "size:report" >>) EXCEPT !.sizeCpr = cpr ]
    IN  IF seen.termHeight > 0 \/ seen.termWidth > 0
        THEN sizeDone(seen, "null")
        ELSE IF h < MinTermSize \/ w < MinTermSize
        THEN sizeDone(Log(seen, "warn:sizeCpr"), "Invalid")
        ELSE sizeDone(Log([ seen EXCEPT !.termHeight = h, !.termWidth = w ],
                          "debug:windowSize"), "null")

\* variant: no check whether the size was found out in the meantime
sizeCprListener_NoRecheck(cl, cpr) ==
    LET h == cpr.pos[1]
        w == cpr.pos[2]
        seen == [ Record(cl, << "size:report" >>) EXCEPT !.sizeCpr = cpr ]
    IN  IF h < MinTermSize \/ h = GotoSentinel \/ w < MinTermSize \/ w = GotoSentinel
        THEN sizeDone(Log(seen, "warn:sizeCpr"), "Invalid")
        ELSE sizeDone(Log([ seen EXCEPT !.termHeight = h, !.termWidth = w ],
                          "debug:windowSize"), "null")

\* variant: termHeight = w, termWidth = h
sizeCprListener_Swapped(cl, cpr) ==
    LET h == cpr.pos[1]
        w == cpr.pos[2]
        seen == [ Record(cl, << "size:report" >>) EXCEPT !.sizeCpr = cpr ]
    IN  IF seen.termHeight > 0 \/ seen.termWidth > 0
        THEN sizeDone(seen, "null")
        ELSE IF h < MinTermSize \/ h = GotoSentinel \/ w < MinTermSize \/ w = GotoSentinel
        THEN sizeDone(Log(seen, "warn:sizeCpr"), "Invalid")
        ELSE sizeDone(Log([ seen EXCEPT !.termHeight = w, !.termWidth = h ],
                          "debug:windowSize"), "null")

sizeCprListener(cl, cpr) ==
    LET h == cpr.pos[1]
        w == cpr.pos[2]
        seen == [ Record(cl, << "size:report" >>) EXCEPT !.sizeCpr = cpr ]
    IN  IF seen.termHeight > 0 \/ seen.termWidth > 0
        THEN sizeDone(seen, "null")
        ELSE IF h < MinTermSize \/ h = GotoSentinel \/ w < MinTermSize \/ w = GotoSentinel
        THEN sizeDone(Log(seen, "warn:sizeCpr"), "Invalid")
        ELSE sizeDone(Log([ seen EXCEPT !.termHeight = h, !.termWidth = w ],
                          "debug:windowSize"), "null")

sizeGiveUp(cl) ==
    sizeDone(Record(cl, << "size:timeout" >>), "General")

\* variant: the query is issued without looking at the known size
ansiQueryTermSizeIfNeeded_Always(cl) ==
    [ Record(cl, << "once:size", "arm:size", "write:sizeQuery" >>)
        EXCEPT !.listeners = @ \cup {"size"},
               !.timers = @ \cup {"size"},
               !.unanswered = @ \cup {"size"},
               !.stage = "size" ]

ansiQueryTermSizeIfNeeded(cl) ==
    IF cl.termHeight > 0 \/ cl.termWidth > 0
    THEN queryTermSizeCb(cl, "null")
    ELSE [ Record(cl, << "once:size", "arm:size", "write:sizeQuery" >>)
             EXCEPT !.listeners = @ \cup {"size"},
                    !.timers = @ \cup {"size"},
                    !.unanswered = @ \cup {"size"},
                    !.stage = "size" ]

(***************************************************************************)
(* connectEntry.discoverHomePosition: callback handed to                   *)
(* ansiDiscoverHomePosition; the error is ignored and the series goes on.  *)
(***************************************************************************)
\* variant: the TODO of discoverHomePosition, bail out when home CPR fails
discoverHomePositionCb_Bail(cl, err) ==
    IF err # "null"
    THEN [ Record(cl, << "home:cb" >>) EXCEPT !.homeErr = err ]
    ELSE ansiQueryTermSizeIfNeeded(
            [ Record(cl, << "home:cb" >>) EXCEPT !.homeErr = err ])

discoverHomePositionCb(cl, err) ==
    ansiQueryTermSizeIfNeeded(
        [ Record(cl, << "home:cb" >>) EXCEPT !.homeErr = err ])

(***************************************************************************)
(* ansiDiscoverHomePosition                                                *)
(***************************************************************************)
\* variant: done() forgets clearTimeout
homeDone_KeepTimer(cl, err) ==
    discoverHomePositionCb(removeListener(cl, "home"), err)

\* variant: done() forgets removeListener
homeDone_KeepListener(cl, err) ==
    discoverHomePositionCb(clearTimeout(cl, "home"), err)

homeDone(cl, err) ==
    discoverHomePositionCb(clearTimeout(removeListener(cl, "home"), "home"), err)

\* variant: h > 1 && w > 1
homeCprListener_And(cl, cpr) ==
    LET h == cpr.pos[1]
        w == cpr.pos[2]
        seen == [ Record(cl, << "home:report" >>) EXCEPT !.homeCpr = cpr ]
    IN  IF h > 1 /\ w > 1
        THEN homeDone(Log(seen, "warn:homeCpr"), "UnexpectedState")
        ELSE IF h = 0 /\ w = 0
        THEN homeDone([ Log(seen, "info:cprOffset") EXCEPT !.cprOffset = 1 ], "null")
        ELSE homeDone(seen, "null")

\* variant: 0 === h | 0 === w
homeCprListener_Or(cl, cpr) ==
    LET h == cpr.pos[1]
        w == cpr.pos[2]
        seen == [ Record(cl, << "home:report" >>) EXCEPT !.homeCpr = cpr ]
    IN  IF h > 1 \/ w > 1
        THEN homeDone(Log(seen, "warn:homeCpr"), "UnexpectedState")
        ELSE IF h = 0 \/ w = 0
        THEN homeDone([ Log(seen, "info:cprOffset") EXCEPT !.cprOffset = 1 ], "null")
        ELSE homeDone(seen, "null")

\* variant: client.cprOffset += 1
homeCprListener_Increment(cl, cpr) ==
    LET h == cpr.pos[1]
        w == cpr.pos[2]
        seen == [ Record(cl, << "home:report" >>) EXCEPT !.homeCpr = cpr ]
    IN  IF h > 1 \/ w > 1
        THEN homeDone(Log(seen, "warn:homeCpr"), "UnexpectedState")
        ELSE IF h = 0 /\ w = 0
        THEN homeDone([ Log(seen, "info:cprOffset") EXCEPT !.cprOffset = @ + 1 ], "null")
        ELSE homeDone(seen, "null")

homeCprListener(cl, cpr) ==
    LET h == cpr.pos[1]
        w == cpr.pos[2]
        seen == [ Record(cl, << "home:report" >>) EXCEPT !.homeCpr = cpr ]
    IN  IF h > 1 \/ w > 1
        THEN homeDone(Log(seen, "warn:homeCpr"), "UnexpectedState")
        ELSE IF h = 0 /\ w = 0
        THEN homeDone([ Log(seen, "info:cprOffset") EXCEPT !.cprOffset = 1 ], "null")
        ELSE homeDone(seen, "null")

\* variant: the timer callback calls cb directly instead of done
homeGiveUp_SkipDone(cl) ==
    discoverHomePositionCb(Record(cl, << "home:timeout" >>), "General")

homeGiveUp(cl) ==
    homeDone(Record(cl, << "home:timeout" >>), "General")

\* variant: the query is written before the listener is registered
ansiDiscoverHomePosition_WriteFirst(cl) ==
    [ Record(cl, << "write:homeQuery", "once:home", "arm:home" >>)
        EXCEPT !.listeners = @ \cup {"home"},
               !.timers = @ \cup {"home"},
               !.unanswered = @ \cup {"home"},
               !.stage = "home" ]

ansiDiscoverHomePosition(cl) ==
    [ Record(cl, << "once:home", "arm:home", "write:homeQuery" >>)
        EXCEPT !.listeners = @ \cup {"home"},
               !.timers = @ \cup {"home"},
               !.unanswered = @ \cup {"home"},
               !.stage = "home" ]

(***************************************************************************)
(* connectEntry: basicPrepWork, then the series runs on synchronously      *)
(* into discoverHomePosition.                                              *)
(***************************************************************************)
basicPrepWork(cl) == Record(cl, << "write:deviceAttributes" >>)

connectEntry(cl) ==
    ansiDiscoverHomePosition(basicPrepWork(
        [ cl EXCEPT !.runs = @ + 1,
                    !.trace = << >>,
                    !.homeErr = "pending",
                    !.sizeErr = "pending",
                    !.homeCpr = NoCpr,
                    !.sizeCpr = NoCpr,
                    !.sizeAtEntry = << cl.termHeight, cl.termWidth >>,
                    !.sizeAtCb = << >> ]))

(***************************************************************************)
(* client.emit('cursor position report', pos): the listeners registered    *)
(* when the event is emitted are invoked in registration order; a          *)
(* listener added with once() is removed before it is called.              *)
(***************************************************************************)
emitCpr(cl, cpr) ==
    LET registered == cl.listeners
        afterHome ==
            IF "home" \in registered
            THEN homeCprListener(removeListener(cl, "home"), cpr)
            ELSE cl
    IN  IF "size" \in registered
        THEN sizeCprListener(removeListener(afterHome, "size"), cpr)
        ELSE afterHome

(***************************************************************************)
(* State after construction: a connected client on which connectEntry has  *)
(* not been called yet.                                                    *)
(***************************************************************************)
NewClient(size, terminal, entries) ==
    [ stage        |-> "idle",
      entries      |-> entries,
      closed       |-> FALSE,
      terminal     |-> terminal,
      runs         |-> 0,
      termHeight   |-> size[1],
      termWidth    |-> size[2],
      cprOffset    |-> 0,
      listeners    |-> {},
      timers       |-> {},
      unanswered   |-> {},
      homeErr      |-> "pending",
      sizeErr      |-> "pending",
      homeCpr      |-> NoCpr,
      sizeCpr      |-> NoCpr,
      sizeAtEntry  |-> << >>,
      sizeAtCb     |-> << >>,
      termDetected |-> 0,
      trace        |-> << >>,
      log          |-> << >> ]

\* WebServerModule constructor: this.routes = {}
NoRoutes ==
    /\ routes = << >>
    /\ addResult = "none"
    /\ dispatch = "none"

InitFor(ids) ==
    /\ clients \in [ ids -> { NewClient(s, Positions, MaxRuns) : s \in InitialSizes } ]
    /\ NoRoutes

Init == InitFor({1})

Ids == DOMAIN clients

(***************************************************************************)
(* Actions.                                                                *)
(***************************************************************************)
\* the server calls connectEntry for a client (again only once the
\* previous run has handed off to the menu)
ConnectEntry(c) ==
    /\ ~clients[c].closed
    /\ clients[c].stage \in { "idle", "menu" }
    /\ clients[c].runs < clients[c].entries
    /\ UNCHANGED web
    /\ clients' = [clients EXCEPT ![c] = connectEntry(@)]

\* the terminal answers query q with pos and the parser emits the event
CursorPositionReport(c, q, pos) ==
    /\ ~clients[c].closed
    /\ pos \in clients[c].terminal
    /\ q \in clients[c].unanswered
    /\ UNCHANGED web
    /\ clients' = [clients EXCEPT ![c] =
            emitCpr([ @ EXCEPT !.unanswered = IF q = "home" THEN @ \ {"home"} ELSE {} ],
                    [ pos |-> pos, re |-> q ])]

\* variant: giveUpTimer is one variable of the module shared by the sessions,
\* so the callback gives up for every session that waits for a home report
HomeGiveUp_SharedTimer(c) ==
    /\ "home" \in clients[c].timers
    /\ UNCHANGED web
    /\ clients' = [ d \in Ids |->
            IF "home" \in clients[d].timers
            THEN homeGiveUp(clearTimeout(clients[d], "home"))
            ELSE clients[d] ]

\* giveUpTimer of ansiDiscoverHomePosition fires (3 s)
HomeGiveUp(c) ==
    /\ "home" \in clients[c].timers
    /\ UNCHANGED web
    /\ clients' = [clients EXCEPT ![c] = homeGiveUp(clearTimeout(@, "home"))]

\* giveUpTimer of ansiQueryTermSizeIfNeeded fires (2 s)
SizeGiveUp(c) ==
    /\ "size" \in clients[c].timers
    /\ UNCHANGED web
    /\ clients' = [clients EXCEPT ![c] = sizeGiveUp(clearTimeout(@, "size"))]

\* the 500 ms timer of connectEntry fires
MenuDelay(c) ==
    /\ "menu" \in clients[c].timers
    /\ UNCHANGED web
    /\ clients' = [clients EXCEPT ![c] = menuGoto(clearTimeout(@, "menu"))]

\* another channel (NAWS or similar) establishes the window size
WindowSize(c, size) ==
    /\ ~clients[c].closed
    /\ <<clients[c].termHeight, clients[c].termWidth>> # size
    /\ UNCHANGED web
    /\ clients' = [clients EXCEPT ![c] =
            [ @ EXCEPT !.termHeight = size[1], !.termWidth = size[2] ]]

\* the connection closes; connect.js registers no handler for it and its
\* give up timers are locals of the negotiators, so nothing is released
Close(c) ==
    /\ ~clients[c].closed
    /\ UNCHANGED web
    /\ clients' = [clients EXCEPT ![c] = [ @ EXCEPT !.closed = TRUE ]]

Next ==
    \/ \E c \in Ids : ConnectEntry(c)
    \/ \E c \in Ids, q \in Queries, pos \in Positions : CursorPositionReport(c, q, pos)
    \/ \E c \in Ids : HomeGiveUp(c)
    \/ \E c \in Ids : SizeGiveUp(c)
    \/ \E c \in Ids : MenuDelay(c)
    \/ \E c \in Ids, size \in WindowSizes : WindowSize(c, size)
    \/ \E c \in Ids : Close(c)

Spec == Init /\ [][Next]_vars

\* timers that are armed eventually fire, and the server calls connectEntry
Fairness ==
    \A c \in {1} :
        /\ WF_vars(ConnectEntry(c))
        /\ WF_vars(HomeGiveUp(c))
        /\ WF_vars(SizeGiveUp(c))
        /\ WF_vars(MenuDelay(c))

LiveSpec == Init /\ [][Next]_vars /\ Fairness

\* two sessions bootstrapping at the same time, connectEntry being called
\* once for each: a 0-based terminal of unknown size and a 1-based
\* terminal that may answer with junk
TwoTerminals ==
    << { <<0, 0>>, <<43, 132>> }, { <<1, 1>>, <<5, 80>> } >>

TwoInit ==
    /\ clients = [ c \in {1, 2} |-> NewClient(<<0, 0>>, TwoTerminals[c], 1) ]
    /\ NoRoutes

TwoSpec == TwoInit /\ [][Next]_vars

(***************************************************************************)
(* Web server (content server module): Route and the route table of        *)
(* WebServerModule.                                                        *)
(***************************************************************************)
\* a member the caller left out; a template literal prints it as "undefined"
Missing == "undefined"

HttpMethods ==
    { "GET", "HEAD", "POST", "PUT", "DELETE", "CONNECT", "OPTIONS", "TRACE" }

\* route objects handed to addRoute
RouteMethods == { "GET", "get", "FETCH", Missing }
RoutePaths == { "/a", "/b", "(", Missing }
RouteHandlers == { "function", Missing }

RouteInputs ==
    [ method : RouteMethods, path : RoutePaths, handler : RouteHandlers ]

\* requests handed to routeRequest
Requests == [ method : { "GET", "FETCH" }, url : { "/a", "/b", "/a/b" } ]

\* String.prototype.toUpperCase on the methods above
toUpperCase(m) == IF m = "get" THEN "GET" ELSE m

\* new RegExp(path): "(" is a syntax error, undefined compiles to /(?:)/
RegExpCompiles(path) == path # "("

\* pathRegExp.test(url): an unanchored match of the literal path
RegExpTest(path, url) ==
    \/ path = Missing
    \/ path = url
    \/ url = "/a/b" /\ path \in { "/a", "/b" }

\* Route constructor; when the path does not compile the catch block reads
\* this.log of the Route, which no caller sets, and the constructor throws
RouteThrows(route) == ~RegExpCompiles(route.path)

Route(route) ==
    [ method     |-> IF route.method # Missing THEN toUpperCase(route.method) ELSE Missing,
      path       |-> route.path,
      handler    |-> route.handler,
      pathRegExp |-> RegExpCompiles(route.path) ]

isValid(r) ==
    \/ r.pathRegExp /\ r.method \in HttpMethods
    \/ ~(r.handler = "function")

matchesRequest(r, req) ==
    req.method = r.method /\ RegExpTest(r.path, req.url)

getRouteKey(r) == r.method \o ":" \o r.path

RouteKeys(table) == { getRouteKey(table[i]) : i \in DOMAIN table }

\* addRoute(route): the return value ("throws" for an exception)
addRouteResult(table, route) ==
    IF RouteThrows(route) THEN "throws"
    ELSE IF ~isValid(Route(route)) THEN "false"
    ELSE IF getRouteKey(Route(route)) \in RouteKeys(table) THEN "false"
    ELSE "true"

\* addRoute(route): the route table afterwards
addRoute(table, route) ==
    IF addRouteResult(table, route) = "true"
    THEN Append(table, Route(route))
    ELSE table

\* routeRequest(req): _.find takes the first matching route in insertion
\* order and calls its handler; with none the static routes are tried
routeRequest(table, req) ==
    LET hits == { i \in DOMAIN table : matchesRequest(table[i], req) }
    IN  IF hits = {} THEN "static"
        ELSE LET first == CHOOSE i \in hits : \A j \in hits : i <= j
             IN  IF table[first].handler = "function" THEN "handler" ELSE "throws"

WebInit ==
    /\ clients = << >>
    /\ NoRoutes

AddRoute(route) ==
    /\ Len(routes) < MaxRoutes
    /\ routes' = addRoute(routes, route)
    /\ addResult' = addRouteResult(routes, route)
    /\ UNCHANGED << clients, dispatch >>

RouteRequest(req) ==
    /\ dispatch' = routeRequest(routes, req)
    /\ UNCHANGED << clients, routes, addResult >>

WebNext ==
    \/ \E route \in RouteInputs : AddRoute(route)
    \/ \E req \in Requests : RouteRequest(req)

WebSpec == WebInit /\ [][WebNext]_vars

(***************************************************************************)
(* Properties.                                                             *)
(***************************************************************************)
Count(seq, e) == Cardinality({ i \in DOMAIN seq : seq[i] = e })

InTrace(cl, e) == \E i \in DOMAIN cl.trace : cl.trace[i] = e

IsPrefix(s, t) == Len(s) <= Len(t) /\ SubSeq(t, 1, Len(s)) = s

\* the home position listener handles a report in this step
HomeHandles(c) ==
    /\ ~InTrace(clients[c], "home:report")
    /\ InTrace(clients'[c], "home:report")

\* the give up timer of the home position query fires in this step
HomeExpires(c) ==
    /\ ~InTrace(clients[c], "home:timeout")
    /\ InTrace(clients'[c], "home:timeout")

\* the pipeline has gone on to the terminal size step
AtSizeStep(cl) ==
    /\ cl.stage \in { "size", "delay" }
    /\ InTrace(cl, "write:sizeQuery") \/ InTrace(cl, "size:cb")

\* C1: once connectEntry has been called, and timers that are armed
\* eventually fire, the pipeline eventually invokes menuStack.goto, whatever
\* reports arrive or fail to arrive.
C1_AlwaysProceeds ==
    (clients[1].stage \in { "home", "size", "delay" }) ~> (clients[1].stage = "menu")

\* both negotiators failed by deadline and the menu was still reached
C1_Witness ==
    /\ clients[1].stage = "menu"
    /\ clients[1].homeErr = "General"
    /\ clients[1].sizeErr = "General"

\* C2: when the pipeline has completed (terminal primed, TermDetected
\* published), termHeight and termWidth are both non-zero.
C2_SizeKnownAtCompletion ==
    \A c \in Ids :
        clients[c].stage \in { "delay", "menu" } =>
            clients[c].termHeight # 0 /\ clients[c].termWidth # 0

\* C3: for each query of a run the completion callback fires at most once;
\* once it has fired for an issued query exactly one of report handled /
\* deadline fired has happened, and until then neither has and both the
\* listener and the timer are still in place.
QueryOutcome(cl, q) ==
    LET issued  == Count(cl.trace, "write:" \o q \o "Query")
        reports == Count(cl.trace, q \o ":report")
        expired == Count(cl.trace, q \o ":timeout")
        called  == Count(cl.trace, q \o ":cb")
    IN  /\ issued <= 1
        /\ called <= 1
        /\ issued = 0 => reports = 0 /\ expired = 0
        /\ issued = 1 /\ called = 1 => reports + expired = 1
        /\ issued = 1 /\ called = 0 =>
                reports + expired = 0 /\ q \in cl.listeners /\ q \in cl.timers

C3_ExactlyOneOutcome ==
    \A c \in Ids : \A q \in Queries : QueryOutcome(clients[c], q)

\* one query resolved by a report and the other by its deadline
C3_Witness ==
    \E c \in Ids :
        /\ Count(clients[c].trace, "home:report") = 1
        /\ Count(clients[c].trace, "size:timeout") = 1
        /\ Count(clients[c].trace, "size:cb") = 1

\* C4: no bootstrap listener and no timer before the first query, and
\* neither the listener nor the give up timer of a step remains once the
\* step has completed.
C4_NoListenerLeak ==
    \A c \in Ids :
        /\ clients[c].stage = "idle" =>
                clients[c].listeners = {} /\ clients[c].timers = {}
        /\ \A q \in Queries :
                InTrace(clients[c], q \o ":cb") =>
                    q \notin clients[c].listeners /\ q \notin clients[c].timers
        /\ clients[c].stage \in { "delay", "menu" } => clients[c].listeners = {}

\* home completed by its deadline, size by a rejected report
C4_Witness ==
    \E c \in Ids :
        /\ clients[c].stage = "delay"
        /\ clients[c].homeErr = "General"
        /\ clients[c].sizeErr = "Invalid"
        /\ clients[c].listeners = {}

\* C5: at most one bootstrap listener and at most one armed deadline timer
\* per session.
C5_AtMostOnePendingQuery ==
    \A c \in Ids :
        /\ Cardinality(clients[c].listeners) <= 1
        /\ Cardinality(clients[c].timers \cap Queries) <= 1

\* the size query is pending after the home query timed out
C5_Witness ==
    \E c \in Ids :
        /\ clients[c].homeErr = "General"
        /\ clients[c].listeners = {"size"}
        /\ clients[c].timers = {"size"}

\* C6: the steps of one run happen in the fixed order
\*   device attributes, home query, home resolved, [size query,] size
\*   resolved, prime, banner, TermDetected, 500 ms delay, goto
\* each at most once.
Milestones ==
    { "write:deviceAttributes", "write:homeQuery", "home:cb", "write:sizeQuery",
      "size:cb", "write:prime", "write:banner", "emit:TermDetected", "arm:menu",
      "goto" }

IsMilestone(e) == e \in Milestones

PipelineOrder ==
    << "write:deviceAttributes", "write:homeQuery", "home:cb", "write:sizeQuery",
       "size:cb", "write:prime", "write:banner", "emit:TermDetected", "arm:menu",
       "goto" >>

PipelineOrderSkipped ==
    << "write:deviceAttributes", "write:homeQuery", "home:cb",
       "size:cb", "write:prime", "write:banner", "emit:TermDetected", "arm:menu",
       "goto" >>

C6_StepsInOrder ==
    \A c \in Ids :
        LET steps == SelectSeq(clients[c].trace, IsMilestone)
        IN  \/ IsPrefix(steps, PipelineOrder)
            \/ IsPrefix(steps, PipelineOrderSkipped)

\* a complete run that issued both queries
C6_Witness ==
    \E c \in Ids :
        /\ clients[c].stage = "menu"
        /\ SelectSeq(clients[c].trace, IsMilestone) = PipelineOrder

\* C7: a home position report with row > 1 or column > 1 completes the
\* negotiator with UnexpectedState, leaves cprOffset as it was, and the
\* pipeline goes on to the terminal size step.
C7_UnexpectedHomeReport ==
    [][ \A c \in Ids :
            ( /\ HomeHandles(c)
              /\ clients'[c].homeCpr.pos[1] > 1 \/ clients'[c].homeCpr.pos[2] > 1 )
            => /\ clients'[c].homeErr = "UnexpectedState"
               /\ clients'[c].cprOffset = clients[c].cprOffset
               /\ AtSizeStep(clients'[c]) ]_vars

\* an offset found by an earlier run survives an unexpected report
C7_Witness ==
    \E c \in Ids :
        /\ clients[c].homeErr = "UnexpectedState"
        /\ clients[c].homeCpr.pos = <<2, 1>>
        /\ clients[c].cprOffset = 1

\* C8: a home position report of (0,0) completes without error with
\* cprOffset = 1, also when cprOffset is 1 already.
C8_ZeroBasedHome ==
    [][ \A c \in Ids :
            (HomeHandles(c) /\ clients'[c].homeCpr.pos = <<0, 0>>)
            => /\ clients'[c].homeErr = "null"
               /\ clients'[c].cprOffset = 1 ]_vars

\* two runs each of which handled a (0,0) home report
C8_Witness ==
    \E c \in Ids :
        /\ clients[c].runs = 2
        /\ clients[c].homeCpr.pos = <<0, 0>>
        /\ Count(clients[c].log, "info:cprOffset") = 2
        /\ clients[c].cprOffset = 1

C10_HomeTimeout ==
    [][ \A c \in Ids :
            /\ HomeExpires(c)
               => /\ clients'[c].homeErr = "General"
                  /\ clients'[c].cprOffset = clients[c].cprOffset
            /\ clients[c].homeErr = "General"
               => clients'[c].cprOffset = clients[c].cprOffset ]_vars

\* the answer to the home query arrived after the deadline had fired
C10_Witness ==
    \E c \in Ids :
        /\ clients[c].homeErr = "General"
        /\ InTrace(clients[c], "home:timeout")
        /\ clients[c].runs = 1
        /\ ~InTrace(clients[c], "write:sizeQuery")
        /\ "home" \notin clients[c].unanswered
        /\ clients[c].cprOffset = 0

Dims(cl) == << cl.termHeight, cl.termWidth >>

Known(size) == size # << >> /\ size[1] # 0 /\ size[2] # 0

Resized(c) == \E size \in WindowSizes : WindowSize(c, size)

\* the terminal size listener handles a report in this step
SizeHandles(c) ==
    /\ ~InTrace(clients[c], "size:report")
    /\ InTrace(clients'[c], "size:report")

\* the callback of the home position / terminal size negotiator is called
HomeCompletes(c) ==
    /\ ~InTrace(clients[c], "home:cb")
    /\ InTrace(clients'[c], "home:cb")

SizeCompletes(c) ==
    /\ ~InTrace(clients[c], "size:cb")
    /\ InTrace(clients'[c], "size:cb")

Defaulted(c) ==
    Count(clients'[c].log, "warn:defaulting") > Count(clients[c].log, "warn:defaulting")

\* C11: a terminal size report handled while the size is unknown is
\* rejected with Invalid, the negotiator handing over the size untouched,
\* if row < 10, column < 10, row = 999 or column = 999; otherwise it is
\* accepted and termHeight = row, termWidth = column.
C11_SizeReportValidation ==
    [][ \A c \in Ids :
            (SizeHandles(c) /\ ~Known(Dims(clients[c])))
            => LET row == clients'[c].sizeCpr.pos[1]
                   col == clients'[c].sizeCpr.pos[2]
               IN  IF row < 10 \/ col < 10 \/ row = 999 \/ col = 999
                   THEN /\ clients'[c].sizeErr = "Invalid"
                        /\ clients'[c].sizeAtCb = Dims(clients[c])
                   ELSE /\ clients'[c].sizeErr = "null"
                        /\ Dims(clients'[c]) = << row, col >> ]_vars

\* the sentinel bounced back and was rejected
C11_Witness ==
    \E c \in Ids :
        /\ clients[c].sizeCpr.pos = <<25, 999>>
        /\ clients[c].sizeErr = "Invalid"
        /\ clients[c].sizeAtCb = <<0, 0>>

\* C12: when both dimensions are non-zero as connectEntry is called, the
\* run writes no size query, registers no size listener, arms no size
\* timer, and no step of the pipeline changes the dimensions.
NoSizeQuery(cl) ==
    /\ ~InTrace(cl, "write:sizeQuery")
    /\ ~InTrace(cl, "once:size")
    /\ ~InTrace(cl, "arm:size")
    /\ "size" \notin cl.listeners
    /\ "size" \notin cl.timers

C12_KnownSizeNoQuery ==
    [][ \A c \in Ids :
            Known(clients'[c].sizeAtEntry)
            => /\ NoSizeQuery(clients'[c])
               /\ ~Resized(c) => Dims(clients'[c]) = Dims(clients[c]) ]_vars

\* a first run that started with 24x80 and handed off with 24x80
C12_Witness ==
    \E c \in Ids :
        /\ clients[c].runs = 1
        /\ clients[c].stage = "menu"
        /\ clients[c].sizeAtEntry = <<24, 80>>
        /\ Dims(clients[c]) = <<24, 80>>
        /\ clients[c].homeErr = "null"

\* C13: when the terminal size step completes, 25x80 is forced exactly when
\* the negotiator failed and a dimension is still 0; a size that is known
\* at that moment is kept, and nothing is forced after a success.
C13_FallbackOnlyIfUnknown ==
    [][ \A c \in Ids :
            SizeCompletes(c)
            => /\ Defaulted(c) <=> ( /\ clients'[c].sizeErr \in { "General", "Invalid" }
                                     /\ ~Known(Dims(clients[c])) )
               /\ Defaulted(c) => Dims(clients'[c]) = << 25, 80 >>
               /\ Known(Dims(clients[c])) => Dims(clients'[c]) = Dims(clients[c])
               /\ clients'[c].sizeErr = "null" => ~Defaulted(c) ]_vars

\* the size arrived out of band while the query was outstanding, the
\* deadline fired, and the size was kept
C13_Witness ==
    \E c \in Ids :
        /\ InTrace(clients[c], "write:sizeQuery")
        /\ clients[c].sizeErr = "General"
        /\ clients[c].sizeAtCb = <<50, 132>>
        /\ Dims(clients[c]) = <<50, 132>>
        /\ clients[c].stage = "delay"

\* C14: a report handled by the terminal size listener after the size
\* became known completes the negotiator without error, without a log line
\* and without changing termHeight or termWidth, whatever the report holds.
C14_RaceRecheck ==
    [][ \A c \in Ids :
            (SizeHandles(c) /\ Known(Dims(clients[c])))
            => /\ clients'[c].sizeErr = "null"
               /\ Dims(clients'[c]) = Dims(clients[c])
               /\ clients'[c].log = clients[c].log ]_vars

\* a report that would have been rejected was disregarded
C14_Witness ==
    \E c \in Ids :
        /\ clients[c].sizeCpr.pos = <<5, 80>>
        /\ clients[c].sizeErr = "null"
        /\ Dims(clients[c]) = <<50, 132>>
        /\ clients[c].stage = "delay"

\* C15: TermDetected is published once per run of connectEntry for the
\* client, after both negotiators have called back and released their
\* listener and timer, and no later step of that run changes termHeight,
\* termWidth or cprOffset.
TermDetectedOnce(cl) ==
    /\ Count(cl.trace, "emit:TermDetected") <= 1
    /\ cl.stage \in { "delay", "menu" } => Count(cl.trace, "emit:TermDetected") = 1
    /\ cl.stage \in { "home", "size" } => Count(cl.trace, "emit:TermDetected") = 0
    /\ cl.termDetected = cl.runs - (IF cl.stage \in { "home", "size" } THEN 1 ELSE 0)
    /\ InTrace(cl, "emit:TermDetected")
       => /\ InTrace(cl, "home:cb")
          /\ InTrace(cl, "size:cb")
          /\ cl.listeners = {}
          /\ cl.timers \cap Queries = {}

C15_TermDetectedOnce ==
    /\ [](\A c \in Ids : TermDetectedOnce(clients[c]))
    /\ [][ \A c \in Ids :
            ( /\ InTrace(clients[c], "emit:TermDetected")
              /\ InTrace(clients'[c], "emit:TermDetected")
              /\ ~Resized(c) )
            => /\ Dims(clients'[c]) = Dims(clients[c])
               /\ clients'[c].cprOffset = clients[c].cprOffset ]_vars

\* published on the degraded path
C15_Witness ==
    \E c \in Ids :
        /\ clients[c].stage = "menu"
        /\ clients[c].termDetected = 1
        /\ Count(clients[c].log, "warn:defaulting") = 1
        /\ clients[c].homeErr = "General"

\* C16: once the connection is closed no bootstrap listener or timer is
\* left and the pipeline does nothing more for the session.
C16_ReleasedAtClose ==
    [][ \A c \in Ids :
            clients'[c].closed
            => /\ clients'[c].listeners = {}
               /\ clients'[c].timers = {}
               /\ clients[c].closed => clients'[c].trace = clients[c].trace ]_vars

\* C17: on a fresh session on which no report is handled, the home deadline
\* fires, then the size deadline, and the pipeline completes with
\* cprOffset = 0, termHeight = 25, termWidth = 80, and then hands off to
\* the menu.
NoResponseTrace ==
    << "write:deviceAttributes", "once:home", "arm:home", "write:homeQuery",
       "home:timeout", "home:cb", "once:size", "arm:size", "write:sizeQuery",
       "size:timeout", "size:cb", "write:prime", "write:banner",
       "emit:TermDetected", "arm:menu" >>

C17_NoResponses ==
    /\ [][ ( /\ clients'[1].trace = NoResponseTrace
             /\ clients[1].trace # NoResponseTrace
             /\ clients'[1].runs = 1
             /\ Dims(clients[1]) = <<0, 0>> )
           => /\ clients'[1].cprOffset = 0
              /\ Dims(clients'[1]) = <<25, 80>>
              /\ clients'[1].stage = "delay"
              /\ "menu" \in clients'[1].timers ]_vars
    /\ (clients[1].trace = NoResponseTrace)
           ~> (clients[1].trace = NoResponseTrace \o << "goto" >>)

C17_Witness ==
    /\ clients[1].runs = 1
    /\ clients[1].trace = NoResponseTrace \o << "goto" >>
    /\ clients[1].sizeAtCb = <<0, 0>>
    /\ clients[1].cprOffset = 0
    /\ Dims(clients[1]) = <<25, 80>>

\* C18: on a fresh session a home report (0,0) and then a size report
\* (43,132), both handled before their deadlines, complete the pipeline
\* with cprOffset = 1, termHeight = 43, termWidth = 132, the banner
\* written, TermDetected published, the menu timer armed and no default
\* applied.
BothResponsesTrace ==
    << "write:deviceAttributes", "once:home", "arm:home", "write:homeQuery",
       "home:report", "home:cb", "once:size", "arm:size", "write:sizeQuery",
       "size:report", "size:cb", "write:prime", "write:banner",
       "emit:TermDetected", "arm:menu" >>

C18_BothResponses ==
    [][ \A c \in Ids :
            ( /\ SizeHandles(c)
              /\ clients'[c].runs = 1
              /\ clients[c].sizeAtEntry = <<0, 0>>
              /\ Dims(clients[c]) = <<0, 0>>
              /\ clients'[c].homeCpr.pos = <<0, 0>>
              /\ clients'[c].sizeCpr.pos = <<43, 132>> )
            => /\ clients'[c].trace = BothResponsesTrace
               /\ clients'[c].cprOffset = 1
               /\ Dims(clients'[c]) = <<43, 132>>
               /\ clients'[c].termDetected = 1
               /\ "menu" \in clients'[c].timers
               /\ Count(clients'[c].log, "warn:defaulting") = 0 ]_vars

C18_Witness ==
    \E c \in Ids :
        /\ clients[c].runs = 1
        /\ clients[c].trace = BothResponsesTrace \o << "goto" >>
        /\ clients[c].homeCpr.pos = <<0, 0>>
        /\ clients[c].sizeCpr.pos = <<43, 132>>
        /\ clients[c].cprOffset = 1
        /\ Dims(clients[c]) = <<43, 132>>

\* C20: the terminal size query is skipped exactly when termHeight and
\* termWidth are both non-zero as the step starts.
C20_SkipOnlyIfBothKnown ==
    [][ \A c \in Ids :
            HomeCompletes(c)
            => ( Known(Dims(clients[c])) <=> ~InTrace(clients'[c], "write:sizeQuery") ) ]_vars

\* C19: a step of one session (report, deadline, out-of-band update, close,
\* connectEntry) leaves every other session's client object as it is, and
\* what it does to its own session depends on that session alone: the new
\* client object is one the same kind of step yields from the old one.
OwnSteps(cl) ==
    { connectEntry(cl), [ cl EXCEPT !.closed = TRUE ] }
    \cup { homeGiveUp(clearTimeout(cl, "home")) : t \in cl.timers \cap {"home"} }
    \cup { sizeGiveUp(clearTimeout(cl, "size")) : t \in cl.timers \cap {"size"} }
    \cup { menuGoto(clearTimeout(cl, "menu")) : t \in cl.timers \cap {"menu"} }
    \cup { [ cl EXCEPT !.termHeight = size[1], !.termWidth = size[2] ] : size \in WindowSizes }
    \cup { emitCpr([ cl EXCEPT !.unanswered = IF q = "home" THEN @ \ {"home"} ELSE {} ],
                   [ pos |-> pos, re |-> q ]) :
             q \in cl.unanswered, pos \in cl.terminal }

C19_SessionsIsolated ==
    [][ \E c \in Ids :
            /\ \A d \in Ids \ {c} : clients'[d] = clients[d]
            /\ clients'[c] \in OwnSteps(clients[c]) ]_vars

\* both sessions handed off, each with the result of its own terminal
C19_Witness ==
    /\ clients[1].stage = "menu"
    /\ clients[2].stage = "menu"
    /\ clients[1].cprOffset = 1
    /\ Dims(clients[1]) = <<43, 132>>
    /\ clients[2].cprOffset = 0
    /\ clients[2].sizeErr = "Invalid"
    /\ Dims(clients[2]) = <<25, 80>>

\* position of the first e in seq, 0 when there is none
IndexOf(seq, e) ==
    IF \E i \in DOMAIN seq : seq[i] = e
    THEN CHOOSE i \in DOMAIN seq : seq[i] = e /\ \A j \in 1..(i - 1) : seq[j] # e
    ELSE 0

\* C21: when a query is issued it is written to the terminal first and
\* the cursor position report listener is registered afterwards.
C21_WriteBeforeListen ==
    \A c \in Ids : \A q \in Queries :
        InTrace(clients[c], "once:" \o q)
        => /\ InTrace(clients[c], "write:" \o q \o "Query")
           /\ IndexOf(clients[c].trace, "write:" \o q \o "Query")
                < IndexOf(clients[c].trace, "once:" \o q)

\* C21 as amended: when a query is issued the listener is registered
\* first, then the give up timer is armed, then the query is written, one
\* right after the other in the same turn.
C21_ListenBeforeWrite ==
    \A c \in Ids : \A q \in Queries :
        LET tr == clients[c].trace
            listen == IndexOf(tr, "once:" \o q)
            arm    == IndexOf(tr, "arm:" \o q)
            write  == IndexOf(tr, "write:" \o q \o "Query")
        IN  (listen # 0 \/ arm # 0 \/ write # 0)
            => /\ listen # 0
               /\ arm = listen + 1
               /\ write = listen + 2

\* both queries of a run have been issued
C21_Witness ==
    \E c \in Ids :
        /\ InTrace(clients[c], "write:homeQuery")
        /\ InTrace(clients[c], "write:sizeQuery")
        /\ clients[c].stage = "size"

\* C22: the answer to the home position query is never handled by the
\* listener of the terminal size query.
C22_NoStaleMatch ==
    \A c \in Ids : clients[c].sizeCpr.re # "home"

\* C23: addRoute returns true and stores the route exactly when the route
\* has a path that compiles, one of the eight HTTP methods and a handler
\* function, and its key is new; otherwise it returns false and leaves the
\* table as it was; so every stored route has a handler, a compiled path
\* and a method, and no two stored routes share a key.
WellFormed(route) ==
    /\ route.path # Missing
    /\ RegExpCompiles(route.path)
    /\ route.method # Missing
    /\ toUpperCase(route.method) \in HttpMethods
    /\ route.handler = "function"

Dispatchable(r) ==
    /\ r.handler = "function"
    /\ r.pathRegExp
    /\ r.path # Missing
    /\ r.method \in HttpMethods

C23_RouteTable ==
    /\ [](/\ \A i \in DOMAIN routes : Dispatchable(routes[i])
          /\ \A i, j \in DOMAIN routes :
                getRouteKey(routes[i]) = getRouteKey(routes[j]) => i = j)
    /\ [][ \A route \in RouteInputs :
            AddRoute(route)
            => IF WellFormed(route) /\ getRouteKey(Route(route)) \notin RouteKeys(routes)
               THEN addResult' = "true" /\ routes' = Append(routes, Route(route))
               ELSE addResult' = "false" /\ routes' = routes ]_vars

====
